---- MODULE Spec2Model ----
(***************************************************************************)
(* Model of plug.py: the `record` command (fetch, classify, one sqlite     *)
(* transaction that appends to event_log and merges into or appends to     *)
(* status_log).  Several record invocations (cron runs) may overlap; each  *)
(* is a process with its own position in the code.                         *)
(*                                                                         *)
(* Units: timestamps are whole seconds (isoformat(timespec="seconds")).    *)
(* power_w = cur_power / 10 is a multiple of 0.1 W; it is kept as the      *)
(* exact rational cur_power/10, represented by [num, den] pairs compared   *)
(* by cross-multiplication.  Thresholds are rationals with denominator 1.  *)
(***************************************************************************)
EXTENDS Integers, Sequences, FiniteSets, TLC

\* ---------------------------------------------------------------- bounds
MaxTime == 2
MaxInvocations == 3

Procs == {1, 2}

\* Thresholds (W) the --threshold option is drawn from; 5 is the default.
DefaultThreshold == 5
Thresholds == {DefaultThreshold, -1}

\* ------------------------------------------------------------ raw samples
\* A data point of the Tuya status reply: {"code": ..., "value": ...}.
\* kind is the Python type of the value.
BoolItem(code, b) == [code |-> code, kind |-> "bool", b |-> b, n |-> 0]
IntItem(code, n) == [code |-> code, kind |-> "int", b |-> FALSE, n |-> n]
StrItem(code) == [code |-> code, kind |-> "str", b |-> FALSE, n |-> 0]

SwitchItems == {<<>>, <<BoolItem("switch_1", TRUE)>>, <<BoolItem("switch_1", FALSE)>>}
PowerItems == {<<>>, <<IntItem("cur_power", 51)>>, <<StrItem("cur_power")>>}

\* The replies cloud.getstatus can return.
RawSamples ==
    {[success |-> TRUE, result |-> s \o w] : s \in SwitchItems, w \in PowerItems}
    \cup {[success |-> FALSE, result |-> <<>>]}

NoRaw == [success |-> FALSE, result |-> <<>>]

\* ------------------------------------------------------------- from_raw
\* dps = {item["code"]: item["value"] for item in result}: the last item
\* with a code wins.
RECURSIVE DpsGet(_, _, _)
DpsGet(result, code, default) ==
    IF result = <<>> THEN default
    ELSE LET last == result[Len(result)]
         IN IF last.code = code THEN last
            ELSE DpsGet(SubSeq(result, 1, Len(result) - 1), code, default)

HasCode(result, code) == \E i \in 1..Len(result) : result[i].code = code

NoPlug == [ok |-> FALSE, power |-> FALSE, power_w |-> [num |-> 0, den |-> 1]]

\* TuyaSmartPlug.from_raw: ok = FALSE stands for the raised exception
\* (ValueError when success is falsy, TypeError when cur_power / 10 is
\* applied to a non-number).  Missing codes take the .get defaults.
from_raw_defaults_rejected(raw) ==
    IF ~raw.success THEN NoPlug
    ELSE IF ~HasCode(raw.result, "switch_1") \/ ~HasCode(raw.result, "cur_power")
         THEN NoPlug
    ELSE LET sw == DpsGet(raw.result, "switch_1", BoolItem("switch_1", FALSE))
             pw == DpsGet(raw.result, "cur_power", IntItem("cur_power", 0))
         IN IF pw.kind # "int" THEN NoPlug
            ELSE [ok |-> TRUE, power |-> sw.b, power_w |-> [num |-> pw.n, den |-> 10]]

from_raw(raw) ==
    IF ~raw.success THEN NoPlug
    ELSE LET sw == DpsGet(raw.result, "switch_1", BoolItem("switch_1", FALSE))
             pw == DpsGet(raw.result, "cur_power", IntItem("cur_power", 0))
         IN IF pw.kind # "int" THEN NoPlug
            ELSE [ok |-> TRUE, power |-> sw.b, power_w |-> [num |-> pw.n, den |-> 10]]

\* ------------------------------------------------- evaluate_plug_state
\* q > t for a rational q = num/den (den > 0) and an integer t.
RatGt(q, t) == q.num > t * q.den
RatGe(q, t) == q.num >= t * q.den

NoPair == [plug_state |-> "-", device_state |-> "-"]

evaluate_plug_state_ge(plug, threshold) ==
    [plug_state |-> IF plug.power THEN "On" ELSE "Off",
     device_state |-> IF ~plug.power THEN "Off"
                      ELSE IF RatGe(plug.power_w, threshold) THEN "On"
                      ELSE "Off"]

evaluate_plug_state_ignores_power(plug, threshold) ==
    [plug_state |-> IF plug.power THEN "On" ELSE "Off",
     device_state |-> IF RatGt(plug.power_w, threshold) THEN "On" ELSE "Off"]

evaluate_plug_state(plug, threshold) ==
    [plug_state |-> IF plug.power THEN "On" ELSE "Off",
     device_state |-> IF ~plug.power THEN "Off"
                      ELSE IF RatGt(plug.power_w, threshold) THEN "On"
                      ELSE "Off"]

\* --------------------------------------------------------- store writes
\* The row INSERT INTO event_log binds (the columns the model keeps).
EventRow_swapped_states(now, plug, pair) ==
    [recorded_at |-> now,
     plug_state |-> pair.device_state,
     device_state |-> pair.plug_state,
     plug_power |-> IF plug.power THEN 1 ELSE 0,
     power_w |-> plug.power_w]

EventRow(now, plug, pair) ==
    [recorded_at |-> now,
     plug_state |-> pair.plug_state,
     device_state |-> pair.device_state,
     plug_power |-> IF plug.power THEN 1 ELSE 0,
     power_w |-> plug.power_w]

NoRow == [rowid |-> 0, plug_state |-> "-", device_state |-> "-"]

\* SELECT rowid, plug_state, device_state FROM status_log
\* ORDER BY rowid DESC LIMIT 1.  Rows are never deleted, so rowid is the
\* position in insertion order.
SelectLastRow(table) ==
    IF Len(table) = 0 THEN NoRow
    ELSE [rowid |-> Len(table),
          plug_state |-> table[Len(table)].plug_state,
          device_state |-> table[Len(table)].device_state]

SamePair(row, pair) ==
    /\ row.plug_state = pair.plug_state
    /\ row.device_state = pair.device_state

\* UPDATE status_log SET end = ? WHERE rowid = ?
UpdateEnd(table, rowid, now) ==
    [i \in 1..Len(table) |-> IF i = rowid THEN [table[i] EXCEPT !.end = now]
                                          ELSE table[i]]

\* INSERT INTO status_log (start, end, plug_state, device_state)
InsertInterval(table, now, pair) ==
    Append(table, [start |-> now, end |-> now,
                   plug_state |-> pair.plug_state,
                   device_state |-> pair.device_state])

\* The interval step of record (lines 223-235): the table and the writes
\* issued, for the row the SELECT returned.
MergeOrInsert_always_insert(table, row, now, pair) ==
    [table |-> InsertInterval(table, now, pair), ops |-> <<"insert">>]

MergeOrInsert_no_return(table, row, now, pair) ==
    IF row.rowid # 0 /\ SamePair(row, pair)
    THEN [table |-> InsertInterval(UpdateEnd(table, row.rowid, now), now, pair),
          ops |-> <<"update", "insert">>]
    ELSE [table |-> InsertInterval(table, now, pair), ops |-> <<"insert">>]

MergeOrInsert_moves_start(table, row, now, pair) ==
    IF row.rowid # 0 /\ SamePair(row, pair)
    THEN [table |-> [i \in 1..Len(table) |->
                        IF i = row.rowid
                        THEN [table[i] EXCEPT !.start = now, !.end = now]
                        ELSE table[i]],
          ops |-> <<"update">>]
    ELSE [table |-> InsertInterval(table, now, pair), ops |-> <<"insert">>]

MergeOrInsert_update_all(table, row, now, pair) ==
    IF row.rowid # 0 /\ SamePair(row, pair)
    THEN [table |-> [i \in 1..Len(table) |-> [table[i] EXCEPT !.end = now]],
          ops |-> <<"update">>]
    ELSE [table |-> InsertInterval(table, now, pair), ops |-> <<"insert">>]

MergeOrInsert_closes_previous(table, row, now, pair) ==
    IF row.rowid # 0 /\ SamePair(row, pair)
    THEN [table |-> UpdateEnd(table, row.rowid, now), ops |-> <<"update">>]
    ELSE [table |-> InsertInterval(
                        IF row.rowid # 0 THEN UpdateEnd(table, row.rowid, now)
                        ELSE table, now, pair),
          ops |-> <<"insert">>]

MergeOrInsert_time_guard(table, row, now, pair) ==
    IF row.rowid # 0 /\ SamePair(row, pair) /\ now >= table[row.rowid].end
    THEN [table |-> UpdateEnd(table, row.rowid, now), ops |-> <<"update">>]
    ELSE [table |-> InsertInterval(table, now, pair), ops |-> <<"insert">>]

MergeOrInsert(table, row, now, pair) ==
    IF row.rowid # 0 /\ SamePair(row, pair)
    THEN [table |-> UpdateEnd(table, row.rowid, now), ops |-> <<"update">>]
    ELSE [table |-> InsertInterval(table, now, pair), ops |-> <<"insert">>]

\* `with sqlite3.connect(DB_PATH) as conn`: leaving the block commits the
\* connection's pending writes when no exception is in flight and rolls
\* them back otherwise.
ConnExit_commits_on_error(raised, committed, pending) == pending

ConnExit(raised, committed, pending) ==
    IF raised THEN committed ELSE pending

\* `except Exception as e: logger.error(...)`: the command logs and returns,
\* so the process exits with code 0.
ExceptHandler_reraises == [logged |-> TRUE, exit_code |-> 1]

ExceptHandler == [logged |-> TRUE, exit_code |-> 0]

\* ------------------------------------------------------------------ state
VARIABLES
    clock,          \* wall clock (whole seconds) when record last read it
    invocations,    \* record invocations started so far
    schema,         \* ensure_db has created the two tables
    event_log,      \* committed rows of event_log, in rowid order
    status_log,     \* committed rows of status_log, in rowid order
    tx_event_log,   \* event_log as the connection holding the write lock sees it
    tx_status_log,  \* status_log as the connection holding the write lock sees it
    lock,           \* process holding sqlite's write lock, 0 when free
    pc,             \* each invocation's position in record()
    now,            \* each invocation's `now`
    threshold,      \* each invocation's --threshold, until it is read (line 185)
    raw,            \* the reply cloud.getstatus gave the invocation
    plug,           \* the invocation's TuyaSmartPlug
    pair,           \* the invocation's (plug_state, device_state)
    row,            \* the row the invocation's SELECT fetched
    ops,            \* the status_log writes the invocation issued
    outcome,        \* how the invocation that finished last ended
    hist            \* what a running history command has printed

vars == <<clock, invocations, schema, event_log, status_log, tx_event_log,
          tx_status_log, lock, pc, now, threshold, raw, plug, pair, row, ops,
          outcome, hist>>

db == <<event_log, status_log, tx_event_log, tx_status_log, lock>>
locals == <<now, threshold, raw, plug, pair, row>>

NoOutcome ==
    [status |-> "none", stage |-> "-", logged |-> FALSE, exit_code |-> 0, ops |-> <<>>]

NoHist == [status |-> "none", rows |-> <<>>, logged |-> FALSE, exit_code |-> 0]

Init ==
    /\ clock = 0
    /\ invocations = 0
    /\ schema = FALSE
    /\ event_log = <<>>
    /\ status_log = <<>>
    /\ tx_event_log = <<>>
    /\ tx_status_log = <<>>
    /\ lock = 0
    /\ pc = [p \in Procs |-> "idle"]
    /\ now = [p \in Procs |-> 0]
    /\ threshold = [p \in Procs |-> DefaultThreshold]
    /\ raw = [p \in Procs |-> NoRaw]
    /\ plug = [p \in Procs |-> NoPlug]
    /\ pair = [p \in Procs |-> NoPair]
    /\ row = [p \in Procs |-> NoRow]
    /\ ops = [p \in Procs |-> <<>>]
    /\ outcome = NoOutcome
    /\ hist = NoHist

\* The invocation's frame is gone once the command returns.
ClearLocals(p) ==
    /\ now' = [now EXCEPT ![p] = 0]
    /\ threshold' = [threshold EXCEPT ![p] = DefaultThreshold]
    /\ raw' = [raw EXCEPT ![p] = NoRaw]
    /\ plug' = [plug EXCEPT ![p] = NoPlug]
    /\ pair' = [pair EXCEPT ![p] = NoPair]
    /\ row' = [row EXCEPT ![p] = NoRow]

\* The except clause of record: log, return normally.
Caught(p, stage) ==
    /\ pc' = [pc EXCEPT ![p] = "idle"]
    /\ outcome' = [status |-> "error", stage |-> stage,
                   logged |-> ExceptHandler.logged,
                   exit_code |-> ExceptHandler.exit_code,
                   ops |-> ops[p]]
    /\ ops' = [ops EXCEPT ![p] = <<>>]
    /\ ClearLocals(p)

\* record starts at some time t not before the previous start (the clock
\* never goes back): ensure_db(), now = datetime.now(utc) to the second.
Start(p) ==
    /\ pc[p] = "idle"
    /\ invocations < MaxInvocations
    /\ invocations' = invocations + 1
    /\ schema' = TRUE
    /\ \E t \in clock..MaxTime :
          /\ clock' = t
          /\ now' = [now EXCEPT ![p] = t]
    /\ \E th \in Thresholds : threshold' = [threshold EXCEPT ![p] = th]
    /\ pc' = [pc EXCEPT ![p] = "fetch"]
    /\ UNCHANGED <<hist, db, raw, plug, pair, row, ops, outcome>>

\* fetch_plug: cloud.getstatus raises (network, authentication).
FetchError(p) ==
    /\ pc[p] = "fetch"
    /\ Caught(p, "fetch")
    /\ UNCHANGED <<hist, clock, invocations, schema, db>>

\* fetch_plug: from_raw raises on the reply.
FetchInvalid(p) ==
    /\ pc[p] = "fetch"
    /\ \E r \in RawSamples : ~from_raw(r).ok
    /\ Caught(p, "validation")
    /\ UNCHANGED <<hist, clock, invocations, schema, db>>

\* fetch_plug returns a plug; evaluate_plug_state classifies it.
FetchOk(p) ==
    /\ pc[p] = "fetch"
    /\ \E r \in RawSamples :
          /\ from_raw(r).ok
          /\ raw' = [raw EXCEPT ![p] = r]
          /\ plug' = [plug EXCEPT ![p] = from_raw(r)]
          /\ pair' = [pair EXCEPT ![p] = evaluate_plug_state(from_raw(r), threshold[p])]
    /\ threshold' = [threshold EXCEPT ![p] = DefaultThreshold]
    /\ pc' = [pc EXCEPT ![p] = "insert_event"]
    /\ UNCHANGED <<hist, clock, invocations, schema, db, now, row, ops, outcome>>

\* INSERT INTO event_log: the first write opens the transaction and takes
\* the database's write lock.
InsertEvent_no_lock(p) ==
    /\ pc[p] = "insert_event"
    /\ schema
    /\ lock' = p
    /\ tx_event_log' = Append(event_log, EventRow(now[p], plug[p], pair[p]))
    /\ tx_status_log' = status_log
    /\ pc' = [pc EXCEPT ![p] = "select"]
    /\ UNCHANGED <<hist, clock, invocations, schema, event_log, status_log, locals,
                   ops, outcome>>

InsertEvent(p) ==
    /\ pc[p] = "insert_event"
    /\ schema
    /\ lock = 0
    /\ lock' = p
    /\ tx_event_log' = Append(event_log, EventRow(now[p], plug[p], pair[p]))
    /\ tx_status_log' = status_log
    /\ pc' = [pc EXCEPT ![p] = "select"]
    /\ UNCHANGED <<hist, clock, invocations, schema, event_log, status_log, locals, ops,
                   outcome>>

\* INSERT INTO event_log while another connection holds the write lock:
\* sqlite gives up after its busy timeout ("database is locked").
InsertEventBusy(p) ==
    /\ pc[p] = "insert_event"
    /\ lock # 0
    /\ lock # p
    /\ Caught(p, "storage")
    /\ UNCHANGED <<hist, clock, invocations, schema, db>>

\* SELECT ... FROM status_log ORDER BY rowid DESC LIMIT 1; fetchone().
SelectLast(p) ==
    /\ pc[p] = "select"
    /\ lock = p
    /\ row' = [row EXCEPT ![p] = SelectLastRow(tx_status_log)]
    /\ pc' = [pc EXCEPT ![p] = "write"]
    /\ UNCHANGED <<hist, clock, invocations, schema, db, now, threshold, raw, plug, pair,
                   ops, outcome>>

\* UPDATE the last row's end and return, or INSERT a new row.
WriteInterval(p) ==
    /\ pc[p] = "write"
    /\ lock = p
    /\ LET w == MergeOrInsert(tx_status_log, row[p], now[p], pair[p])
       IN /\ tx_status_log' = w.table
          /\ ops' = [ops EXCEPT ![p] = ops[p] \o w.ops]
    /\ pc' = [pc EXCEPT ![p] = "commit"]
    /\ UNCHANGED <<hist, clock, invocations, schema, event_log, status_log, tx_event_log,
                   lock, locals, outcome>>

\* The with block is left normally: commit.
Commit(p) ==
    /\ pc[p] = "commit"
    /\ lock = p
    /\ event_log' = ConnExit(FALSE, event_log, tx_event_log)
    /\ status_log' = ConnExit(FALSE, status_log, tx_status_log)
    /\ tx_event_log' = event_log'
    /\ tx_status_log' = status_log'
    /\ lock' = 0
    /\ pc' = [pc EXCEPT ![p] = "idle"]
    /\ outcome' = [status |-> "ok", stage |-> "-", logged |-> FALSE, exit_code |-> 0,
                   ops |-> ops[p]]
    /\ ops' = [ops EXCEPT ![p] = <<>>]
    /\ ClearLocals(p)
    /\ UNCHANGED <<hist, clock, invocations, schema>>

\* A statement of the transaction (or the commit) raises sqlite3.Error:
\* the with block is left by the exception, then the except clause runs.
StorageError(p) ==
    /\ pc[p] \in {"select", "write", "commit"}
    /\ lock = p
    /\ event_log' = ConnExit(TRUE, event_log, tx_event_log)
    /\ status_log' = ConnExit(TRUE, status_log, tx_status_log)
    /\ tx_event_log' = event_log'
    /\ tx_status_log' = status_log'
    /\ lock' = 0
    /\ Caught(p, "storage")
    /\ UNCHANGED <<hist, clock, invocations, schema>>

\* sqlite3.connect or the first INSERT raises before anything is pending.
ConnectError(p) ==
    /\ pc[p] = "insert_event"
    /\ Caught(p, "storage")
    /\ UNCHANGED <<hist, clock, invocations, schema, db>>

\* One step of a record invocation that meets no other writer.
RecordStep(p) ==
    \/ Start(p)
    \/ FetchError(p)
    \/ FetchInvalid(p)
    \/ FetchOk(p)
    \/ InsertEvent(p)
    \/ ConnectError(p)
    \/ SelectLast(p)
    \/ WriteInterval(p)
    \/ Commit(p)
    \/ StorageError(p)

\* Overlapping invocations (cron runs that overlap, manual re-runs).
Next ==
    \E p \in Procs :
        \/ RecordStep(p)
        \/ InsertEventBusy(p)

Spec == Init /\ [][Next]_vars

\* Invocations one after the other, as cron runs them once a minute: the
\* next one starts after the previous one has returned.
SeqNext == \E p \in {1} : RecordStep(p)

SeqSpec == Init /\ [][SeqNext]_vars

\* ------------------------------------------- evaluate_plug_state alone
\* The classifier applied to every plug and threshold of a bounded set.
MaxCurPower == 60
ClassifyPlugs ==
    {[ok |-> TRUE, power |-> b, power_w |-> [num |-> n, den |-> 10]] :
        b \in BOOLEAN, n \in (0 - MaxCurPower)..MaxCurPower}
ClassifyThresholds == {-1, 0, DefaultThreshold}

ClassifyInit ==
    /\ clock = 0
    /\ invocations = 0
    /\ schema = FALSE
    /\ event_log = <<>>
    /\ status_log = <<>>
    /\ tx_event_log = <<>>
    /\ tx_status_log = <<>>
    /\ lock = 0
    /\ pc = [p \in Procs |-> IF p = 1 THEN "classify" ELSE "idle"]
    /\ now = [p \in Procs |-> 0]
    /\ \E th \in ClassifyThresholds :
          threshold = [p \in Procs |-> IF p = 1 THEN th ELSE DefaultThreshold]
    /\ raw = [p \in Procs |-> NoRaw]
    /\ \E g \in ClassifyPlugs : plug = [p \in Procs |-> IF p = 1 THEN g ELSE NoPlug]
    /\ pair = [p \in Procs |-> NoPair]
    /\ row = [p \in Procs |-> NoRow]
    /\ ops = [p \in Procs |-> <<>>]
    /\ outcome = NoOutcome
    /\ hist = NoHist

\* plug_state, device_state = evaluate_plug_state(plug, threshold)
Classify(p) ==
    /\ pc[p] = "classify"
    /\ pair' = [pair EXCEPT ![p] = evaluate_plug_state(plug[p], threshold[p])]
    /\ pc' = [pc EXCEPT ![p] = "classified"]
    /\ UNCHANGED <<hist, clock, invocations, schema, db, now, threshold, raw, plug, row, ops,
                   outcome>>

ClassifyNext == \E p \in Procs : Classify(p)

ClassifySpec == ClassifyInit /\ [][ClassifyNext]_vars

\* -------------------------------------------- overlapping store updates
\* Two invocations whose fetch succeeded, competing for the database: the
\* failures that happen before the transaction (fetch, parse, connect) are
\* left to SeqSpec.
OverlapNext ==
    \E p \in Procs :
        \/ Start(p)
        \/ FetchOk(p)
        \/ InsertEvent(p)
        \/ InsertEventBusy(p)
        \/ SelectLast(p)
        \/ WriteInterval(p)
        \/ Commit(p)
        \/ StorageError(p)

OverlapSpec == Init /\ [][OverlapNext]_vars

\* ---------------------------------------------------------------- history
\* The injective maps of 1..n onto itself.
Perms(n) == {f \in [1..n -> 1..n] : \A i, j \in 1..n : f[i] = f[j] => i = j}

\* SELECT start, end, plug_state, device_state FROM status_log
\* ORDER BY start DESC; fetchall().  SQL leaves the order of rows with equal
\* start open.  start is the ISO text of a UTC instant to the second, always
\* with the +00:00 suffix, so text order is time order.
OrderByStartDesc_rowid_order(table) == {table}

OrderByStartDesc(table) ==
    {[i \in 1..Len(table) |-> table[f[i]]] : f \in
        {g \in Perms(Len(table)) :
            \A i, j \in 1..Len(table) :
                i < j => table[g[i]].start >= table[g[j]].start}}

\* duration_seconds = int((end_dt - start_dt).total_seconds());
\* hours, remainder = divmod(duration_seconds, 3600); minutes = remainder // 60
Duration_rounds_minutes(start, end) ==
    [hours |-> (end - start) \div 3600,
     minutes |-> (((end - start) % 3600) + 30) \div 60]

Duration(start, end) ==
    LET duration_seconds == end - start
        hours == duration_seconds \div 3600
        remainder == duration_seconds % 3600
    IN [hours |-> hours, minutes |-> remainder \div 60]

\* One printed line of the history table (the time-range column, which
\* depends on the local time zone, is left out).
DisplayRow(r) ==
    [start |-> r.start, end |-> r.end,
     hours |-> Duration(r.start, r.end).hours,
     minutes |-> Duration(r.start, r.end).minutes,
     plug_state |-> r.plug_state, device_state |-> r.device_state]

\* What history prints for the fetched rows: "No history found." when
\* there are none, the table otherwise.
RenderHistory_empty_raises(rows) ==
    IF Len(rows) = 0
    THEN [status |-> "error", rows |-> <<>>, logged |-> TRUE, exit_code |-> 0]
    ELSE [status |-> "table",
          rows |-> [i \in 1..Len(rows) |-> DisplayRow(rows[i])],
          logged |-> FALSE, exit_code |-> 0]

RenderHistory(rows) ==
    IF Len(rows) = 0
    THEN [status |-> "empty", rows |-> <<>>, logged |-> FALSE, exit_code |-> 0]
    ELSE [status |-> "table",
          rows |-> [i \in 1..Len(rows) |-> DisplayRow(rows[i])],
          logged |-> FALSE, exit_code |-> 0]

\* history: ensure_db(), read the committed rows, print.
History ==
    /\ schema' = TRUE
    /\ \E rows \in OrderByStartDesc(status_log) : hist' = RenderHistory(rows)
    /\ UNCHANGED <<clock, invocations, db, pc, locals, ops, outcome>>

\* history: sqlite raises; the except clause logs "Failed to load history".
HistoryError ==
    /\ schema' = TRUE
    /\ hist' = [status |-> "storage_error", rows |-> <<>>, logged |-> TRUE,
                exit_code |-> 0]
    /\ UNCHANGED <<clock, invocations, db, pc, locals, ops, outcome>>

\* The history process is over; its output is no longer on screen.
HistoryExit ==
    /\ hist.status # "none"
    /\ hist' = NoHist
    /\ UNCHANGED <<clock, invocations, schema, db, pc, locals, ops, outcome>>

\* Commands run one after the other: record invocations as in SeqSpec, and
\* history between them.
HistoryNext ==
    \/ (hist.status = "none" /\ SeqNext)
    \/ (hist.status = "none" /\ (\A p \in Procs : pc[p] = "idle") /\ History)
    \/ (hist.status = "none" /\ (\A p \in Procs : pc[p] = "idle") /\ HistoryError)
    \/ HistoryExit

HistorySpec == Init /\ [][HistoryNext]_vars

\* history alone, over one stored interval of every length of a bounded
\* set (up to more than a day).
DurationStarts == {0, 59, 86399}
DurationLengths ==
    {h * 3600 + m * 60 + sec : h \in {0, 1, 23, 24, 25}, m \in {0, 1, 59},
                               sec \in {0, 1, 59}}

DurationInit ==
    /\ clock = 0
    /\ invocations = 0
    /\ schema = TRUE
    /\ event_log = <<>>
    /\ \E t \in DurationStarts, d \in DurationLengths :
          status_log = <<[start |-> t, end |-> t + d,
                          plug_state |-> "On", device_state |-> "On"]>>
    /\ tx_event_log = <<>>
    /\ tx_status_log = status_log
    /\ lock = 0
    /\ pc = [p \in Procs |-> "idle"]
    /\ now = [p \in Procs |-> 0]
    /\ threshold = [p \in Procs |-> DefaultThreshold]
    /\ raw = [p \in Procs |-> NoRaw]
    /\ plug = [p \in Procs |-> NoPlug]
    /\ pair = [p \in Procs |-> NoPair]
    /\ row = [p \in Procs |-> NoRow]
    /\ ops = [p \in Procs |-> <<>>]
    /\ outcome = NoOutcome
    /\ hist = NoHist

DurationNext == History

DurationSpec == DurationInit /\ [][DurationNext]_vars

\* ======================================================== properties
Last(table) == table[Len(table)]

\* The invocation of p commits in this step.
Commits(p) == pc[p] = "commit" /\ pc'[p] = "idle" /\ outcome'.status = "ok"

\* The invocation of p fails in the persistence step in this step.
StorageFails(p) ==
    /\ pc[p] \in {"insert_event", "select", "write", "commit"}
    /\ pc'[p] = "idle"
    /\ outcome'.status = "error"

StrictlyIncreasing(log) ==
    \A i \in 1..(Len(log) - 1) : log[i].recorded_at < log[i + 1].recorded_at

NonDecreasing(log) ==
    \A i \in 1..(Len(log) - 1) : log[i].recorded_at <= log[i + 1].recorded_at

\* Positions of the log whose State Pair differs from the previous sample's.
Transitions(log) ==
    Cardinality({i \in 2..Len(log) :
                    \/ log[i].plug_state # log[i - 1].plug_state
                    \/ log[i].device_state # log[i - 1].device_state})

\* C1: after samples with strictly increasing timestamps were recorded from
\* an empty store, the number of status_log rows is the number of State
\* Pair transitions plus one, and zero when no sample was recorded.
C1_IntervalCount ==
    StrictlyIncreasing(event_log) =>
        Len(status_log) = IF Len(event_log) = 0 THEN 0
                          ELSE Transitions(event_log) + 1

C1_Witness ==
    /\ Len(event_log) = 3
    /\ StrictlyIncreasing(event_log)
    /\ Transitions(event_log) = 1
    /\ Len(status_log) = 2

\* C2: with non-decreasing timestamps the intervals in creation order are
\* ordered by start and each one ends no later than the next one starts.
C2_OrderedNonOverlapping ==
    NonDecreasing(event_log) =>
        \A i \in 1..(Len(status_log) - 1) :
            /\ status_log[i].start <= status_log[i + 1].start
            /\ status_log[i].end <= status_log[i + 1].start

C2_Witness ==
    /\ NonDecreasing(event_log)
    /\ Len(status_log) >= 2
    /\ status_log[1].end > status_log[1].start
    /\ status_log[2].start > status_log[1].end

\* C3: a sample with the last interval's pair, recorded later than that
\* interval's end, moves the end of that row to the sample's time and
\* changes nothing else: same rows, same start, same pair, no new row.
C3_Merge ==
    [][\A p \in Procs :
          (/\ Commits(p)
           /\ Len(status_log) > 0
           /\ Last(status_log).plug_state = pair[p].plug_state
           /\ Last(status_log).device_state = pair[p].device_state
           /\ now[p] > Last(status_log).end)
          => /\ Len(status_log') = Len(status_log)
             /\ \A i \in 1..(Len(status_log) - 1) : status_log'[i] = status_log[i]
             /\ Last(status_log') = [start |-> Last(status_log).start,
                                     end |-> now[p],
                                     plug_state |-> pair[p].plug_state,
                                     device_state |-> pair[p].device_state]]_vars

C3_Witness ==
    /\ outcome.status = "ok"
    /\ outcome.ops = <<"update">>
    /\ Len(status_log) = 1
    /\ Len(event_log) = 3
    /\ StrictlyIncreasing(event_log)
    /\ status_log[1].start = event_log[1].recorded_at
    /\ status_log[1].end = event_log[3].recorded_at

\* C4: a sample whose pair differs from the last interval's, or recorded
\* into an empty table, leaves every existing row as it was and creates
\* exactly one row (start = end = the sample's time, the sample's pair).
C4_Transition ==
    [][\A p \in Procs :
          (/\ Commits(p)
           /\ \/ Len(status_log) = 0
              \/ Last(status_log).plug_state # pair[p].plug_state
              \/ Last(status_log).device_state # pair[p].device_state)
          => /\ Len(status_log') = Len(status_log) + 1
             /\ \A i \in 1..Len(status_log) : status_log'[i] = status_log[i]
             /\ Last(status_log') = [start |-> now[p],
                                     end |-> now[p],
                                     plug_state |-> pair[p].plug_state,
                                     device_state |-> pair[p].device_state]]_vars

C4_Witness ==
    /\ outcome.status = "ok"
    /\ outcome.ops = <<"insert">>
    /\ Len(status_log) = 2
    /\ status_log[1].end > status_log[1].start
    /\ status_log[2].start = status_log[2].end
    /\ status_log[2].start > status_log[1].end

\* C5: every step leaves the existing event_log rows in place; a committing
\* invocation appends exactly one row with its timestamp, snapshot and
\* pair, whether it merged or inserted; no other step changes the log.
C5_EventLogAppendOnly ==
    [][/\ Len(event_log') >= Len(event_log)
       /\ \A i \in 1..Len(event_log) : event_log'[i] = event_log[i]
       /\ \A p \in Procs :
             Commits(p) =>
                event_log' = Append(event_log,
                                    [recorded_at |-> now[p],
                                     plug_state |-> pair[p].plug_state,
                                     device_state |-> pair[p].device_state,
                                     plug_power |-> IF plug[p].power THEN 1 ELSE 0,
                                     power_w |-> plug[p].power_w])
       /\ (\A p \in Procs : ~Commits(p)) => event_log' = event_log]_vars

C5_Witness ==
    /\ outcome.status = "ok"
    /\ outcome.ops = <<"update">>
    /\ Len(event_log) = 2
    /\ Len(status_log) = 1
    /\ event_log[1].plug_state = "On"
    /\ event_log[1].device_state = "Off"

\* C6: an invocation that completes has issued exactly one write to
\* status_log, an update or an insert, by the time it commits.
C6_OneIntervalWrite ==
    /\ outcome.status = "ok" =>
          outcome.ops \in {<<"update">>, <<"insert">>}
    /\ \A p \in Procs :
          pc[p] = "commit" => ops[p] \in {<<"update">>, <<"insert">>}

C6_Witness ==
    /\ outcome.status = "ok"
    /\ outcome.ops = <<"update">>
    /\ Len(event_log) = 3
    /\ Len(status_log) = 2

\* C7: the classifier gives plug_state On iff power, and device_state On
\* iff power and power_w strictly above the threshold.
C7_Classification ==
    \A p \in Procs :
        pc[p] = "classified" =>
            /\ pair[p].plug_state \in {"On", "Off"}
            /\ pair[p].device_state \in {"On", "Off"}
            /\ pair[p].plug_state = "On" <=> plug[p].power
            /\ pair[p].device_state = "On" <=>
                  (plug[p].power /\ plug[p].power_w.num > 10 * threshold[p])

C7_Witness ==
    \E p \in Procs :
        /\ pc[p] = "classified"
        /\ plug[p].power
        /\ plug[p].power_w.num = 10 * threshold[p]
        /\ threshold[p] = DefaultThreshold
        /\ pair[p] = [plug_state |-> "On", device_state |-> "Off"]

\* C8: an invocation that fails in the persistence step leaves both
\* committed tables as they were; the tables only ever change together,
\* in the step of an invocation that committed one interval write.
C8_NoPartialWrite ==
    [][/\ \A p \in Procs :
             StorageFails(p) => event_log' = event_log /\ status_log' = status_log
       /\ event_log' # event_log =>
             /\ outcome'.status = "ok"
             /\ Len(outcome'.ops) = 1
             /\ Len(status_log') > 0
             /\ Last(status_log').end = Last(event_log').recorded_at
       /\ status_log' # status_log => Len(event_log') = Len(event_log) + 1]_vars

C8_Witness ==
    /\ outcome.status = "error"
    /\ outcome.stage = "storage"
    /\ outcome.ops # <<>>
    /\ event_log = <<>>
    /\ status_log = <<>>

MissingFields(r) ==
    r.success /\ (~HasCode(r.result, "switch_1") \/ ~HasCode(r.result, "cur_power"))

\* A raw reply from_raw raises on: no success flag, or a cur_power that is
\* not a number.
Rejected(r) ==
    \/ ~r.success
    \/ \E i \in 1..Len(r.result) :
          r.result[i].code = "cur_power" /\ r.result[i].kind # "int"

\* C10 as claimed: no Event Record and no Interval Record is written for a
\* raw sample with missing fields.
C10_Original ==
    [][\A p \in Procs :
          (Commits(p) /\ MissingFields(raw[p])) =>
             event_log' = event_log /\ status_log' = status_log]_vars

\* C10 amended: a raw sample from_raw raises on (success falsy, cur_power
\* not a number) never reaches the store and the failing invocation writes
\* nothing; a raw sample that only lacks fields is recorded with the
\* defaults (power False, power_w 0) in place of the missing fields.
C10_RejectedOrDefaulted ==
    [][/\ \A r \in RawSamples : Rejected(r) <=> ~from_raw(r).ok
       /\ \A p \in Procs :
             /\ (pc[p] = "fetch" /\ pc'[p] = "idle") =>
                   /\ outcome'.status = "error"
                   /\ outcome'.ops = <<>>
                   /\ event_log' = event_log
                   /\ status_log' = status_log
             /\ (pc[p] = "fetch" /\ pc'[p] = "insert_event") => ~Rejected(raw'[p])
             /\ Commits(p) =>
                   /\ ~Rejected(raw[p])
                   /\ ~HasCode(raw[p].result, "switch_1") =>
                         Last(event_log').plug_power = 0
                   /\ ~HasCode(raw[p].result, "cur_power") =>
                         Last(event_log').power_w.num = 0]_vars

C10_Witness ==
    /\ outcome.status = "error"
    /\ outcome.stage = "validation"
    /\ outcome.ops = <<>>
    /\ Len(event_log) = 1
    /\ event_log[1].plug_power = 0
    /\ event_log[1].power_w.num = 0

\* C12: no step removes a status_log row or changes a row other than the
\* last one, and of the last one only end changes.
C12_OnlyLatestEndMutated ==
    [][/\ Len(status_log') >= Len(status_log)
       /\ \A i \in 1..(Len(status_log) - 1) : status_log'[i] = status_log[i]
       /\ Len(status_log) > 0 =>
             /\ status_log'[Len(status_log)].start = Last(status_log).start
             /\ status_log'[Len(status_log)].plug_state = Last(status_log).plug_state
             /\ status_log'[Len(status_log)].device_state
                   = Last(status_log).device_state]_vars

C12_Witness ==
    /\ Len(status_log) = 2
    /\ status_log[1].start = status_log[1].end
    /\ status_log[2].end > status_log[2].start
    /\ outcome.status = "ok"

\* The stored columns of a printed history line.
Stored(d) ==
    [start |-> d.start, end |-> d.end,
     plug_state |-> d.plug_state, device_state |-> d.device_state]

\* C13: the printed table holds every stored interval exactly once, by
\* start descending, and a history step changes neither table.
C13_HistoryListsAll ==
    [][/\ hist'.status = "table" =>
             /\ Len(hist'.rows) = Len(status_log')
             /\ \E f \in Perms(Len(status_log')) :
                   \A i \in 1..Len(status_log') :
                      Stored(hist'.rows[i]) = status_log'[f[i]]
             /\ \A i \in 1..(Len(hist'.rows) - 1) :
                   hist'.rows[i].start >= hist'.rows[i + 1].start
       /\ hist' # hist =>
             /\ event_log' = event_log
             /\ status_log' = status_log]_vars

C13_Witness ==
    /\ hist.status = "table"
    /\ Len(hist.rows) = 2
    /\ hist.rows[1].start > hist.rows[2].start
    /\ Stored(hist.rows[1]) = status_log[2]
    /\ Stored(hist.rows[2]) = status_log[1]

\* C14: with no stored interval, a history run that reads the table ends
\* with the "No history found." result, normally: nothing logged as an
\* error, exit code 0.
C14_EmptyHistory ==
    (status_log = <<>> /\ hist.status \notin {"none", "storage_error"}) =>
        /\ hist.status = "empty"
        /\ hist.rows = <<>>
        /\ ~hist.logged
        /\ hist.exit_code = 0

C14_Witness ==
    /\ status_log = <<>>
    /\ hist.status = "empty"
    /\ outcome.status = "error"

\* C15: for end >= start the printed duration is the floor of the length
\* in minutes, split into minutes below 60 and hours that are not capped.
C15_DurationFloor ==
    hist.status = "table" =>
        \A i \in 1..Len(hist.rows) :
            LET d == hist.rows[i].end - hist.rows[i].start
                h == hist.rows[i].hours
                m == hist.rows[i].minutes
            IN d >= 0 =>
                  /\ 0 <= m /\ m < 60
                  /\ h >= 0
                  /\ h * 3600 + m * 60 <= d
                  /\ d < h * 3600 + m * 60 + 60

C15_Witness ==
    /\ hist.status = "table"
    /\ Len(hist.rows) = 1
    /\ hist.rows[1].end - hist.rows[1].start = 25 * 3600 + 59 * 60 + 59
    /\ hist.rows[1].hours = 25
    /\ hist.rows[1].minutes = 59

\* C16: no two status_log rows created one after the other hold the same
\* State Pair.
C16_MaximalRuns ==
    \A i \in 1..(Len(status_log) - 1) :
        \/ status_log[i].plug_state # status_log[i + 1].plug_state
        \/ status_log[i].device_state # status_log[i + 1].device_state

C16_Witness ==
    /\ Len(event_log) = 3
    /\ Transitions(event_log) = 0
    /\ Len(status_log) = 1

\* C17: whether an invocation merges or inserts is decided by the pair of
\* the last created row and its own pair alone; a sample older than the
\* last row's end still merges (end is set to the older time) or inserts.
C17_DecisionByPairOnly ==
    \A p \in Procs :
        pc[p] = "commit" =>
            IF /\ Len(status_log) > 0
               /\ Last(status_log).plug_state = pair[p].plug_state
               /\ Last(status_log).device_state = pair[p].device_state
            THEN /\ ops[p] = <<"update">>
                 /\ Len(tx_status_log) = Len(status_log)
                 /\ Last(tx_status_log).end = now[p]
            ELSE /\ ops[p] = <<"insert">>
                 /\ Len(tx_status_log) = Len(status_log) + 1
                 /\ Last(tx_status_log).start = now[p]

C17_Witness ==
    /\ Len(event_log) = 2
    /\ event_log[2].recorded_at < event_log[1].recorded_at
    /\ Len(status_log) = 1
    /\ status_log[1].end = event_log[2].recorded_at
    /\ outcome.ops = <<"update">>

\* The first positions of the maximal runs of equal State Pairs of a log.
RunStarts(log) ==
    {i \in 1..Len(log) :
        \/ i = 1
        \/ log[i].plug_state # log[i - 1].plug_state
        \/ log[i].device_state # log[i - 1].device_state}

\* The first position of the k-th run.
KthRunStart(log, k) ==
    CHOOSE i \in RunStarts(log) : Cardinality({j \in RunStarts(log) : j <= i}) = k

\* The last position of the run that starts at i.
RunEnd(log, i) ==
    CHOOSE j \in i..Len(log) :
        /\ \A m \in (i + 1)..j : m \notin RunStarts(log)
        /\ j = Len(log) \/ (j + 1) \in RunStarts(log)

\* C18: status_log in creation order is the run-length encoding of
\* event_log in insertion order.
C18_RunLengthEncoding ==
    /\ Len(status_log) = Cardinality(RunStarts(event_log))
    /\ \A k \in 1..Len(status_log) :
          LET first == KthRunStart(event_log, k)
              last == RunEnd(event_log, first)
          IN status_log[k] = [start |-> event_log[first].recorded_at,
                              end |-> event_log[last].recorded_at,
                              plug_state |-> event_log[first].plug_state,
                              device_state |-> event_log[first].device_state]

C18_Witness ==
    /\ Len(event_log) = 3
    /\ RunStarts(event_log) = {1, 2}
    /\ Len(status_log) = 2
    /\ status_log[2].end > status_log[2].start
    /\ event_log[1].recorded_at < event_log[2].recorded_at

\* Positions of the transaction of record, between the event insert and
\* the commit.
InTx == {"select", "write", "commit"}

\* C11: the store updates of overlapping invocations do not interleave: at
\* most one invocation is between its event insert and its commit, it
\* holds the write lock, the committed tables do not change under it (its
\* pending log is the committed log plus its own event) and the row it
\* read is still the last committed interval when it writes and commits;
\* so no committed sample is lost: the committed intervals are those that
\* the committed events produce when recorded one after the other.
C11_Serialized ==
    /\ \A p, q \in Procs : (p # q /\ pc[p] \in InTx) => pc[q] \notin InTx
    /\ \A p \in Procs :
          pc[p] \in InTx =>
             /\ lock = p
             /\ Len(tx_event_log) = Len(event_log) + 1
             /\ \A i \in 1..Len(event_log) : tx_event_log[i] = event_log[i]
             /\ Last(tx_event_log).recorded_at = now[p]
             /\ pc[p] \in {"write", "commit"} =>
                   /\ row[p].rowid = Len(status_log)
                   /\ Len(status_log) > 0 =>
                         /\ row[p].plug_state = Last(status_log).plug_state
                         /\ row[p].device_state = Last(status_log).device_state
    /\ C18_RunLengthEncoding

C11_Witness ==
    \E p, q \in Procs :
        /\ p # q
        /\ pc[p] = "commit"
        /\ pc[q] = "insert_event"
        /\ Len(status_log) = 1
        /\ ops[p] = <<"update">>
        /\ pair[q] = pair[p]
        /\ now[q] # now[p]

\* C19: every committed interval has start <= end.
C19_StartNotAfterEnd ==
    \A i \in 1..Len(status_log) : status_log[i].start <= status_log[i].end

\* C20: no event_log row and no status_log row holds plug_state Off with
\* device_state On.
C20_DeviceOnImpliesPlugOn ==
    /\ \A i \in 1..Len(event_log) :
          event_log[i].device_state = "On" => event_log[i].plug_state = "On"
    /\ \A i \in 1..Len(status_log) :
          status_log[i].device_state = "On" => status_log[i].plug_state = "On"

C20_Witness ==
    /\ Len(event_log) = 2
    /\ event_log[1].plug_power = 0
    /\ event_log[1].power_w.num = 51
    /\ event_log[1].device_state = "Off"
    /\ event_log[2].plug_power = 1
    /\ event_log[2].power_w.num = 0
    /\ event_log[2].device_state = "On"
    /\ Len(status_log) = 2

====
